---- MODULE Spec2Model ----
(***************************************************************************)
(* Microphone capture pipeline of transcord: the AudioRecorder (sensitivity *)
(* controller and capture lifecycle, src/lib/audio-recorder.ts) and the     *)
(* AudioProcessingWorklet sample processor (src/unnamed/part_003).          *)
(*                                                                          *)
(* audio-recorder.ts holds two revisions of the class: the "advanced"       *)
(* controller (lines 23-229, rolling history, voice focus, hold counter)    *)
(* and the "hysteresis" controller (lines 269-444, isSpeaking flag and      *)
(* silenceFrames).  The variable `version` says which revision a behaviour  *)
(* runs; the lifecycle code (start/stop) is the same in both.               *)
(*                                                                          *)
(* Numbers of the program are IEEE doubles; here they are fixed-point       *)
(* integers: volumes and the noise floor in units of 1/VolScale, gains in   *)
(* units of 1/GainScale, the ducking multiplier in units of 1/MultScale.    *)
(* Products are rounded to the nearest unit (RDiv), comparisons against     *)
(* thresholds are exact (cross-multiplied).                                 *)
(***************************************************************************)
EXTENDS Integers, Sequences, FiniteSets, TLC

\* ---------------------------------------------------------------- bounds
\* number of start() calls explored
MaxStarts == 2
\* number of RMS samples delivered to updateSensitivity
MaxRms == 4
\* number of RMS messages in flight to the control context
MaxInFlight == 1
\* number of setVolumeMultiplier / setVoiceFocus calls
MaxApi == 2
\* length of the warm-up run of a scripted run of RMS samples
MaxWarm == 180
\* RMS samples of a scripted run after its first event
MaxRun == 44
\* events (changes of level, control calls) of a scripted run
MaxEvents == 2
\* RMS samples after which a ducked gain is looked at
DuckSettle == 36
\* number of process() calls of the worklet
MaxBlocks == 3
\* number of messages delivered to the worklet's port
MaxMsgs == 1
\* blocks of a run of the own-VAD worklet, and changes of its input level
MaxGateBlocks == 50
MaxGateChanges == 1
\* WebSocket objects the service creates
MaxSockets == 3
\* sessions the live client asks for
MaxSessions == 3

\* ---------------------------------------------------------------- scales
VolScale == 10 ^ 5
\* the gains of the own-VAD worklet are in units of 1/VadScale
VadScale == 10 ^ 4
GainScale == 10 ^ 3
MultScale == 10 ^ 3

\* rounding division (nearest unit, halves up), b > 0
RDiv(a, b) == (2 * a + b) \div (2 * b)

Max(a, b) == IF a >= b THEN a ELSE b
Min(a, b) == IF a <= b THEN a ELSE b

RECURSIVE SumSeq(_)
SumSeq(s) == IF s = << >> THEN 0 ELSE Head(s) + SumSeq(Tail(s))

\* ------------------------------------------------------ program constants
ADVANCED == "advanced"
HYSTERESIS == "hysteresis"
Versions == {ADVANCED, HYSTERESIS}

HISTORY_SIZE == 8
SPEECH_HOLD_FRAMES == 24
\* NOISE_FLOOR_DECAY = 0.00005, in volume units
NOISE_FLOOR_DECAY == 5 * (VolScale \div 100000)
\* silenceFrames limit of the hysteresis revision (silenceFrames > 10)
SILENCE_FRAME_LIMIT == 10

\* maxGain = 12.0 (advanced), MAX_GAIN = 5.0 (hysteresis)
MAX_GAIN(v) == IF v = ADVANCED THEN 12 * GainScale ELSE 5 * GainScale
\* minGain = 0.1 (advanced), MIN_GAIN = 0.4 (hysteresis)
MIN_GAIN(v) == IF v = ADVANCED THEN GainScale \div 10 ELSE (4 * GainScale) \div 10

\* field initialisers of the class
DefaultGain == 1 * GainScale
DefaultMultiplier == 1 * MultScale
\* noiseFloor = 0.001 (advanced), 0.005 (hysteresis)
DefaultNoiseFloor(v) == IF v = ADVANCED THEN VolScale \div 1000 ELSE (5 * VolScale) \div 1000

\* ------------------------------------------------- inputs of the model
\* RMS samples reported by the level meter: silence, floor-level noise
\* (0.0005) and speech (0.03, 0.5)
RmsInputs == {0, VolScale \div 2000, (3 * VolScale) \div 100, VolScale \div 2}
\* arguments of setVolumeMultiplier: the two values ControlTray passes
\* (0.15, 1.0) and two values outside [0,1]
MultiplierInputs == {0 - (MultScale \div 2), (15 * MultScale) \div 100, MultScale, 2 * MultScale}

\* scripted runs: a warm-up at the level 0.01 (none, or long enough for the
\* noise floor to reach 0.01), then runs of equal samples at 0.01, 0.025
\* and 0.5
WarmLevel == VolScale \div 100
WarmLengths == {0, MaxWarm}
RunLevels == {WarmLevel, (25 * VolScale) \div 1000, VolScale \div 2}
\* the argument of setVolumeMultiplier while the remote voice speaks
DuckTargets == {0}

SocketIds == 1 .. MaxSockets
SessionIds == 1 .. MaxSessions
AttemptIds == 1 .. MaxStarts
\* the value of lastCall after stop()
StopCall == 0 - 1
\* positions of one start() attempt (the executor of `this.starting`)
PendingPcs == {"getUserMedia", "audioContext", "addModuleRec", "addModuleVu"}

VARIABLES
    version,                \* which revision of AudioRecorder runs
    \* --- SensitivityState
    currentGain, targetGain, noiseFloor, lastVolume, volumeHistory,
    volumeMultiplier, targetVolumeMultiplier, voiceFocus, speechHoldCounter,
    isSpeaking, silenceFrames,
    \* --- GainCommand port of the recording worklet
    lastPosted,             \* finalGain of the last message posted
    postCount,              \* number of messages posted
    gainPort,               \* GainCommands posted and not yet delivered
    gainSent,               \* every GainCommand posted, in posting order
    \* --- lifecycle fields
    stream, source, recording, recordingWorklet, vuWorklet, starting,
    connections,            \* <<source, kind, node>>: source.connect(node)
    \* --- start() attempts
    att,                    \* attempt id -> position of its executor
    ret,                    \* attempt id -> state of the promise start() returned
    lastCall,               \* the last call: the attempt of a start(), or
                            \* StopCall, 0 before any call
    waiters,                \* attempts whose promise has handleStop attached
    acquired,               \* streams returned by getUserMedia
    tracksStopped,          \* streams whose tracks were stopped
    recNodes, vuNodes,      \* worklet nodes constructed
    \* --- bookkeeping
    rmsCount,               \* RMS samples handled
    rmsInFlight,            \* RMS messages the level reporter has posted
                            \* and the control context has not yet handled
    apiCount,               \* setVolumeMultiplier / setVoiceFocus calls made
    lastVol,                \* the RMS sample of the last updateSensitivity
    quietBefore,            \* that sample met the VAD in Silence, after a
                            \* block at or below the noise floor
    lastOp,                 \* the operation that produced this state
    stopRan,                \* handleStop ran in the step that produced this state
    \* --- bookkeeping of a scripted run of RMS samples
    runLevel,               \* the level of the current run of equal samples
    levelChanges,           \* changes of level so far
    freeSteps,              \* RMS samples since the first event of the script
    rmsWindow,              \* the last HISTORY_SIZE samples, oldest first
    aboveRun,               \* latest consecutive samples above the entry threshold
    belowRun,               \* latest consecutive samples below the exit threshold
    dropAfter,              \* aboveRun at the start of the current below-run
    prevGain, prevMult,     \* currentGain, volumeMultiplier before the last sample
    prevSpeaking, prevHold, \* VAD state and hold counter before the last sample
    trigFocus, trigPlain,   \* the last sample triggers with / without voice focus
    duckSteps,              \* samples handled since the ducking target became 0
    scen,                   \* samples of the scenario matched so far
    rmsLog,                 \* every RMS sample of the run, in arrival order
    trigTarget,             \* targetGain of the last sample that triggered
                            \* or sustained speech
    \* --- AudioProcessingWorklet (gain-interpolating revision)
    wTargetGain, wCurrentGain,  \* floats: finite, NaN or infinite
    buffer, bufferWriteIndex,
    wChunks,                \* chunks posted
    wLastChunk,             \* the samples of the last chunk posted
    wBlocks, wMsgs,         \* process() calls and messages handled
    wWorstErr,              \* largest |s - decoded| over the samples the
                            \* last process() call wrote, s the clipped sample
    wSawOne,                \* that call wrote a sample clipped to +1.0
    wLastOp,
    gainDelivered,          \* GainCommands the port has delivered
    \* --- both revisions of AudioProcessingWorklet
    wRevision,              \* the revision whose process() has run
    wSamples,               \* samples processed
    wFull,                  \* times the buffer became full and was reset
    wDropped,               \* full buffers that were not posted
    wInRange,               \* every write so far found bufferWriteIndex < 512
    wRuns,                  \* <<value, count>> of the input samples in the buffer
    wLastRuns,              \* the same for the last full buffer
    \* --- AudioProcessingWorklet, own-VAD revision
    vCurrentGain, vTargetGain,
    vNoiseFloor, isSpeechDetected, hangoverFrames,
    bufferHot,              \* a sample of the buffer was written with
                            \* currentGain above the silence epsilon
    droppedHot,             \* such a buffer was dropped
    emitGain,               \* the smallest currentGain a chunk was posted at
    dropGain,               \* the largest currentGain a buffer was dropped at
    gateLevel, gateChanges, \* the sample value of the last block; its changes
    blockLen,               \* the block length of the run
    \* --- WebSocketService
    ws,                     \* the socket held in `ws`, 0 for null
    wsStatus,               \* _status
    sockets,                \* socket id -> state of that WebSocket
    wsRevision,             \* the revision of the service whose connect() ran
    reconnectTimeout,       \* the timer held in `reconnectTimeout`, 0 for null
    timers,                 \* socket id -> state of the timer its close set
    sendResult,             \* what the last sendPrompt() did
    \* --- GenAILiveClient
    liveStatus,             \* _status
    session,                \* the session held in `session`, 0 for undefined
    sessions,               \* session id -> state of that session's connection
    connecting,             \* session id -> state of the connect() call that
                            \* asked for it
    afterDisconnect,        \* disconnect() has returned and connect() was not
                            \* called since
    liveSent                \* <<method, outcome, _status>> of the last send

sensVars == << currentGain, targetGain, noiseFloor, lastVolume, volumeHistory,
               volumeMultiplier, targetVolumeMultiplier, voiceFocus,
               speechHoldCounter, isSpeaking, silenceFrames >>
portVars == << lastPosted, postCount, gainPort, gainSent >>
lifeVars == << stream, source, recording, recordingWorklet, vuWorklet, starting,
              connections >>
attVars == << att, ret, lastCall, waiters, acquired, tracksStopped, recNodes, vuNodes >>
bookVars == << rmsCount, rmsInFlight, apiCount, lastVol, quietBefore, lastOp,
              stopRan >>
runVars == << runLevel, levelChanges, freeSteps, rmsWindow, aboveRun, belowRun,
             dropAfter, prevGain, prevMult, prevSpeaking, prevHold, trigFocus,
             trigPlain, duckSteps, scen, rmsLog, trigTarget >>
recorderVars == << version, sensVars, portVars, lifeVars, attVars, bookVars,
                  runVars >>
workletVars == << wTargetGain, wCurrentGain, buffer, bufferWriteIndex, wChunks,
                 wLastChunk, wBlocks, wMsgs, wWorstErr, wSawOne, wLastOp,
                 gainDelivered >>
bufferVars == << wRevision, wSamples, wFull, wDropped, wInRange, wRuns,
                wLastRuns >>
gateVars == << vCurrentGain, vTargetGain, vNoiseFloor, isSpeechDetected,
              hangoverFrames, bufferHot, droppedHot, emitGain, dropGain,
              gateLevel, gateChanges, blockLen >>
\* the services beside the audio pipeline
wsVars == << ws, wsStatus, sockets, wsRevision, reconnectTimeout, timers,
            sendResult >>
liveVars == << liveStatus, session, sessions, connecting, afterDisconnect,
              liveSent >>
auxVars == << wsVars, liveVars >>
vars == << recorderVars, workletVars, bufferVars, gateVars, auxVars >>

\* ======================================================================
\* Sensitivity controller, advanced revision (audio-recorder.ts 69-146)
\* ======================================================================

\* a history that is never shifted
PushHistoryKeepsAll(hist, volume) == Append(hist, volume)

\* 1. volumeHistory.push(volume); shift() when longer than HISTORY_SIZE
PushHistory(hist, volume) ==
    LET h == Append(hist, volume)
    IN IF Len(h) > HISTORY_SIZE THEN Tail(h) ELSE h

\* a noise floor that drops to a lower volume at once
NoiseFloorFollows(nf, volume) ==
    IF volume < nf THEN volume ELSE nf + NOISE_FLOOR_DECAY

\* 2. noise floor: NOISE_FLOOR_ATTACK = 0.01 below the floor, else drift up
NoiseFloorAdv(nf, volume) ==
    IF volume < nf THEN RDiv(nf * 99 + volume, 100)
    ELSE nf + NOISE_FLOOR_DECAY

\* dynamicThreshold = noiseFloor * snrMultiplier + baseOffset, times 10
DynamicThresholdX10(nf, vf) ==
    IF vf THEN 45 * nf + (15 * VolScale) \div 100
    ELSE 22 * nf + (5 * VolScale) \div 100

\* onsetThreshold
OnsetThreshold(vf) == IF vf THEN VolScale \div 100 ELSE (2 * VolScale) \div 100

\* a detector that waits for the mean of a full history window
TriggerAdvFullWindow(volume, hist, nf, delta, vf) ==
    /\ Len(hist) = HISTORY_SIZE
    /\ 10 * SumSeq(hist) > Len(hist) * DynamicThresholdX10(nf, vf)

\* volume > dynamicThreshold || avgVolume > dynamicThreshold
\*   || volumeDelta > onsetThreshold
TriggerAdv(volume, hist, nf, delta, vf) ==
    \/ 10 * volume > DynamicThresholdX10(nf, vf)
    \/ 10 * SumSeq(hist) > Len(hist) * DynamicThresholdX10(nf, vf)
    \/ delta > OnsetThreshold(vf)

\* targetLevel
TargetLevel(vf) == IF vf THEN (75 * VolScale) \div 100 ELSE (50 * VolScale) \div 100

\* 4. targetGain: clamp(targetLevel / max(avgVolume, 0.0001)) or hard gate
TargetGainAdv(speaking, hist, vf) ==
    IF speaking
    THEN LET gainToTarget ==
                 RDiv(TargetLevel(vf) * Len(hist) * GainScale,
                      Max(SumSeq(hist), Len(hist) * (VolScale \div 10000)))
         IN Max(MIN_GAIN(ADVANCED), Min(MAX_GAIN(ADVANCED), gainToTarget))
    ELSE 0

\* the same smoothing with the (1 - alpha) factor forgotten
SmoothAdvNoDecay(cur, tgt, vf) ==
    IF tgt > cur THEN cur + RDiv(tgt * 5, 10)
    ELSE IF vf THEN cur + RDiv(tgt, 10) ELSE cur + RDiv(tgt * 2, 10)

\* 5. currentGain * (1 - alpha) + targetGain * alpha,
\*    attackAlpha = 0.5, releaseAlpha = voiceFocus ? 0.1 : 0.2
SmoothAdv(cur, tgt, vf) ==
    IF tgt > cur THEN RDiv(cur * 5 + tgt * 5, 10)
    ELSE IF vf THEN RDiv(cur * 9 + tgt, 10) ELSE RDiv(cur * 8 + tgt * 2, 10)

\* a ducking multiplier that jumps to its target
DuckAdvInstant(mult, tgtMult) == tgtMult

\* ducking blend, duckingAlpha = 0.2
DuckAdv(mult, tgtMult) == RDiv(mult * 8 + tgtMult * 2, 10)

\* finalGain = currentGain * volumeMultiplier
FinalGain(cur, mult) == RDiv(cur * mult, MultScale)

\* ======================================================================
\* Sensitivity controller, hysteresis revision (audio-recorder.ts 305-362)
\* ======================================================================

\* 1. noiseFloor * 0.98 + max(0.001, volume) * 0.02 while not speaking
NoiseFloorHys(nf, volume, speaking) ==
    IF ~speaking THEN RDiv(nf * 98 + Max(VolScale \div 1000, volume) * 2, 100)
    ELSE nf

\* volume > START_THRESHOLD = noiseFloor * 3.0 + 0.015
AboveStart(volume, nf) == volume > 3 * nf + (15 * VolScale) \div 1000
\* volume < STOP_THRESHOLD = noiseFloor * 1.5 + 0.005
BelowStop(volume, nf) == 2 * volume < 3 * nf + VolScale \div 100

\* 3. VAD state machine: the new isSpeaking
SpeakingHys(speaking, frames, volume, nf) ==
    IF ~speaking /\ AboveStart(volume, nf) THEN TRUE
    ELSE IF speaking
         THEN IF BelowStop(volume, nf) THEN ~(frames + 1 > SILENCE_FRAME_LIMIT)
              ELSE TRUE
         ELSE speaking

\* 3. VAD state machine: the new silenceFrames
FramesHys(speaking, frames, volume, nf) ==
    IF ~speaking /\ AboveStart(volume, nf) THEN 0
    ELSE IF speaking
         THEN IF BelowStop(volume, nf) THEN frames + 1 ELSE 0
         ELSE frames

\* 4. TARGET_LEVEL / max(0.01, volume) clamped, or zero
TargetGainHys(speaking, volume) ==
    IF speaking
    THEN LET adjustmentFactor ==
                 RDiv(((45 * VolScale) \div 100) * GainScale,
                      Max(VolScale \div 100, volume))
         IN Max(MIN_GAIN(HYSTERESIS), Min(MAX_GAIN(HYSTERESIS), adjustmentFactor))
    ELSE 0

\* 5. gainAlpha = targetGain > currentGain ? 0.25 : 0.12
SmoothHys(cur, tgt) ==
    IF tgt > cur THEN RDiv(cur * 75 + tgt * 25, 100)
    ELSE RDiv(cur * 88 + tgt * 12, 100)

\* duckingAlpha = 0.15
DuckHys(mult, tgtMult) == RDiv(mult * 85 + tgtMult * 15, 100)


\* ======================================================================
\* AudioProcessingWorklet, gain-interpolating revision (part_003 145-207)
\* ======================================================================
\* buffer = new Int16Array(512)
BUFFER_LENGTH == 512
\* int16Value = sample * 32768; decoded as dataInt16[i] / 32768
PCM_SCALE == 32768
\* samples are fixed-point, in units of 1/SampleScale (half a PCM step)
SampleScale == 2 * PCM_SCALE

\* a float of the worklet: finite (v in units of 1/GainScale), NaN, or
\* infinite (v the sign)
Fin(v) == [k |-> "fin", v |-> v]
NaN == [k |-> "nan", v |-> 0]
Inf(sgn) == [k |-> "inf", v |-> sgn]

Sign(n) == IF n > 0 THEN 1 ELSE IF n < 0 THEN 0 - 1 ELSE 0
Abs(n) == IF n < 0 THEN 0 - n ELSE n

\* a + b on floats
FAdd(a, b) ==
    IF a.k = "nan" \/ b.k = "nan" THEN NaN
    ELSE IF a.k = "fin" /\ b.k = "fin" THEN Fin(a.v + b.v)
    ELSE IF a.k = "inf" /\ b.k = "inf" THEN (IF a.v = b.v THEN a ELSE NaN)
    ELSE IF a.k = "inf" THEN a ELSE b

\* -a on floats
FNeg(a) == IF a.k = "nan" THEN NaN ELSE [k |-> a.k, v |-> 0 - a.v]

\* a * smoothingFactor, smoothingFactor = 0.05
FSmoothing(a) == IF a.k = "fin" THEN Fin(RDiv(a.v * 5, 100)) ELSE a

\* currentGain += (targetGain - currentGain) * smoothingFactor
WSmooth(cur, tgt) == FAdd(cur, FSmoothing(FAdd(tgt, FNeg(cur))))

\* float32Array[i] * currentGain, x a finite sample
ApplyGain(x, g) ==
    IF g.k = "nan" THEN NaN
    ELSE IF g.k = "inf" THEN (IF x = 0 THEN NaN ELSE Inf(Sign(x) * g.v))
    ELSE Fin(RDiv(x * g.v, GainScale))

\* if (sample > 1.0) sample = 1.0; if (sample < -1.0) sample = -1.0
Clip(smp) ==
    IF smp.k = "nan" THEN NaN
    ELSE IF smp.k = "inf" THEN Fin(smp.v * SampleScale)
    ELSE IF smp.v > SampleScale THEN Fin(SampleScale)
    ELSE IF smp.v < 0 - SampleScale THEN Fin(0 - SampleScale)
    ELSE smp

\* storing a number in an Int16Array: NaN is 0, the fraction is dropped
\* (toward zero), the integer is taken modulo 2^16 into [-32768, 32767]
ToInt16(num, den) ==
    LET t == Sign(num) * (Abs(num) \div den)
    IN ((t + 32768) % 65536) - 32768

\* buffer[i] = sample * 32768
Quantize(smp) ==
    IF smp.k = "nan" THEN 0 ELSE ToInt16(smp.v, SampleScale \div PCM_SCALE)

\* dataInt16[i] / 32768 (StreamingConsole.tsx 35), in sample units
Decode(q) == (q * SampleScale) \div PCM_SCALE

\* |s - decoded(stored)| for a clipped sample; 0 when s is NaN
RoundTripError(smp) ==
    IF smp.k = "nan" THEN 0 ELSE Abs(smp.v - Decode(Quantize(smp)))

\* one iteration of the loop of processChunk on a sample of value x, with
\* sendAndClearBuffer when the buffer is full
ProcessSample(x, st) ==
    LET cur == WSmooth(st.cur, st.tgt)
        smp == Clip(ApplyGain(x, cur))
        buf == [st.buf EXCEPT ![st.idx + 1] = Quantize(smp)]
        idx == st.idx + 1
        full == idx >= BUFFER_LENGTH
    IN [cur |-> cur, tgt |-> st.tgt, buf |-> buf,
        idx |-> IF full THEN 0 ELSE idx,
        chunks |-> IF full THEN st.chunks + 1 ELSE st.chunks,
        last |-> IF full THEN SubSeq(buf, 1, idx) ELSE st.last,
        err |-> Max(st.err, RoundTripError(smp)),
        one |-> st.one \/ smp = Fin(SampleScale),
        n |-> st.n + 1,
        full |-> IF full THEN st.full + 1 ELSE st.full,
        ok |-> st.ok /\ st.idx < BUFFER_LENGTH]

\* the loop of processChunk over n samples of value x (the first half of
\* the samples, then the rest)
RECURSIVE ProcessLoop(_, _, _)
ProcessLoop(n, x, st) ==
    IF n = 0 THEN st
    ELSE IF n = 1 THEN ProcessSample(x, st)
    ELSE LET half == ProcessLoop(n \div 2, x, st)
         IN IF half.idx >= 0 THEN ProcessLoop(n - n \div 2, x, half) ELSE half

\* values of event.data.gain: absent, 0, 0.5, 1.0, above MAX_GAIN, negative,
\* NaN and Infinity
NoGain == [k |-> "undefined", v |-> 0]
GainMessages ==
    { NoGain, Fin(0), Fin(GainScale \div 2), Fin(GainScale),
      Fin(13 * GainScale), Fin(0 - GainScale), NaN, Inf(1) }

\* the blocks handed to process(): n samples of one value,
\* n in {128, 512}, the value in {-1.0, 0.3 + 1/65536, 1.0}
BlockLengths == {128, 512}
SampleInputs == {0 - SampleScale, (3 * SampleScale) \div 10 + 1, SampleScale}

\* field initialisers of the own-VAD revision (part_003 14-20)
GateInit ==
    /\ vCurrentGain = 0 /\ vTargetGain = 0
    /\ vNoiseFloor = (5 * VolScale) \div 1000
    /\ isSpeechDetected = FALSE /\ hangoverFrames = 0
    /\ bufferHot = FALSE /\ droppedHot = FALSE
    /\ emitGain = VadScale /\ dropGain = 0
    /\ gateLevel = 0 /\ gateChanges = 0 /\ blockLen = 0

WorkletInit ==
    /\ wTargetGain = Fin(GainScale)
    /\ wCurrentGain = Fin(GainScale)
    /\ buffer = << >> \o [i \in 1 .. BUFFER_LENGTH |-> 0]
    /\ bufferWriteIndex = 0
    /\ wChunks = 0
    /\ wLastChunk = << >>
    /\ wBlocks = 0 /\ wMsgs = 0
    /\ wWorstErr = 0 /\ wSawOne = FALSE
    /\ wLastOp = "init"
    /\ gainDelivered = 0
    /\ wRevision = "none"
    /\ wSamples = 0 /\ wFull = 0 /\ wDropped = 0 /\ wInRange = TRUE
    /\ wRuns = << >> /\ wLastRuns = << >>
    /\ GateInit

\* port.onmessage: if (event.data.gain !== undefined) targetGain = gain
OnMessage(gain) ==
    /\ wMsgs' = wMsgs + 1
    /\ wTargetGain' = IF gain # NoGain THEN gain ELSE wTargetGain
    /\ wLastOp' = "onmessage"
    /\ UNCHANGED << wCurrentGain, buffer, bufferWriteIndex,
                    wChunks, wLastChunk, wBlocks, wWorstErr, wSawOne >>

\* a message with any payload arrives at the port
onmessage(gain) ==
    /\ wMsgs < MaxMsgs
    /\ OnMessage(gain)
    /\ UNCHANGED << recorderVars, gainDelivered, bufferVars, gateVars, auxVars >>

\* a port that hands over the newest message first
NewestMessage(port) == port[Len(port)]

\* the message a delivery takes from the port: the oldest one in flight
NextMessage(port) == Head(port)

\* the port delivers the oldest GainCommand in flight to onmessage
portDeliver ==
    /\ gainPort # << >>
    /\ OnMessage(Fin(NextMessage(gainPort)))
    /\ gainPort' = Tail(gainPort)
    /\ gainDelivered' = gainDelivered + 1
    /\ UNCHANGED << version, sensVars, lastPosted, postCount, gainSent,
                    lifeVars, attVars, bookVars, runVars, bufferVars, gateVars, auxVars >>

\* samples of the input held by the buffer, by the runs logged for it
Held(runs) == SumSeq([i \in 1 .. Len(runs) |-> runs[i][2]])

\* log of the input: a block of n samples of value x arrives (a block is
\* never longer than the buffer)
LogRuns(n, x) ==
    LET held == Held(wRuns)
    IN IF held + n < BUFFER_LENGTH
       THEN wRuns' = Append(wRuns, << x, n >>) /\ UNCHANGED wLastRuns
       ELSE /\ wLastRuns' = Append(wRuns, << x, BUFFER_LENGTH - held >>)
            /\ wRuns' = IF held + n > BUFFER_LENGTH
                        THEN << << x, held + n - BUFFER_LENGTH >> >>
                        ELSE << >>

\* process(inputs) with a channel of n samples
process(n, x) ==
    /\ wBlocks < MaxBlocks
    /\ wRevision \in {"none", "gain"}
    /\ wRevision' = "gain"
    /\ wBlocks' = wBlocks + 1
    /\ \E r \in { ProcessLoop(n, x,
                   [cur |-> wCurrentGain, tgt |-> wTargetGain, buf |-> buffer,
                    idx |-> bufferWriteIndex, chunks |-> wChunks,
                    last |-> wLastChunk, err |-> 0, one |-> FALSE,
                    n |-> wSamples, full |-> wFull, ok |-> wInRange]) } :
          /\ wCurrentGain' = r.cur
          /\ buffer' = r.buf
          /\ bufferWriteIndex' = r.idx
          /\ wChunks' = r.chunks
          /\ wLastChunk' = r.last
          /\ wWorstErr' = r.err
          /\ wSawOne' = r.one
          /\ wSamples' = r.n
          /\ wFull' = r.full
          /\ wInRange' = r.ok
    /\ LogRuns(n, x)
    /\ wLastOp' = "process"
    /\ UNCHANGED << recorderVars, wTargetGain, wMsgs, gainDelivered, wDropped,
                    gateVars, auxVars >>

\* process(inputs) when inputs[0] is empty: nothing is processed
processEmpty ==
    /\ wBlocks < MaxBlocks
    /\ wBlocks' = wBlocks + 1
    /\ wLastOp' = "processEmpty"
    /\ UNCHANGED << recorderVars, wTargetGain, wCurrentGain, buffer,
                    bufferWriteIndex, wChunks, wLastChunk, wMsgs, wWorstErr,
                    wSawOne, gainDelivered, bufferVars, gateVars, auxVars >>


\* ======================================================================
\* AudioProcessingWorklet, own-VAD revision (part_003 6-120)
\* ======================================================================
\* HANGOVER_MAX = 40
HANGOVER_MAX == 40
\* if (this.currentGain > 0.001): the silence epsilon
SilenceEpsilon == VadScale \div 1000

\* rms = Math.sqrt(sum / l) of a block of equal samples x, in volume units
Rms(x) == RDiv(Abs(x) * (VolScale \div 16), SampleScale \div 16)

\* noise floor: NOISE_ATTACK = 0.05 below noiseFloor * 1.2, else
\* NOISE_DECAY = 0.0005 is added
VadNoiseFloor(nf, rms) ==
    IF 10 * rms < 12 * nf THEN RDiv(nf * 95 + rms * 5, 100)
    ELSE nf + (5 * VolScale) \div 10000

\* activeThreshold = noiseFloor * 2.5 + 0.008, times 10
ActiveX10(nf) == 25 * nf + (8 * VolScale) \div 100
\* sustainThreshold = noiseFloor * 1.5 + 0.004, times 10
SustainX10(nf) == 15 * nf + (4 * VolScale) \div 100

\* isSpeechDetected after the hysteresis logic
VadSpeech(rms, nf, speech, hang) ==
    IF 10 * rms > ActiveX10(nf) THEN TRUE
    ELSE IF 10 * rms < SustainX10(nf) THEN (hang > 0 /\ speech)
    ELSE speech

\* hangoverFrames after the hysteresis logic
VadHangover(rms, nf, hang) ==
    IF 10 * rms > ActiveX10(nf) THEN HANGOVER_MAX
    ELSE IF 10 * rms < SustainX10(nf) /\ hang > 0 THEN hang - 1
    ELSE hang

\* targetGain = Math.min(1.0, 0.7 / Math.max(rms, 0.01)), or 0.0
VadTargetGain(rms, speech) ==
    IF speech
    THEN Min(VadScale, RDiv(7 * (VolScale \div 10) * VadScale,
                            Max(rms, VolScale \div 100)))
    ELSE 0

\* beta = targetGain > currentGain ? ATTACK_BETA : RELEASE_BETA;
\* currentGain += (targetGain - currentGain) * beta
VadSmooth(cur, tgt) ==
    IF tgt > cur THEN cur + RDiv((tgt - cur) * 4, 10)
    ELSE cur + RDiv(tgt - cur, 10)

\* l[i] * currentGain, clipped to [-1, 1]
VadSample(x, cur) ==
    LET smp == RDiv(x * cur, VadScale)
    IN IF smp > SampleScale THEN SampleScale
       ELSE IF smp < 0 - SampleScale THEN 0 - SampleScale ELSE smp

\* buffer[i] = sample * 32767
VadQuantize(smp) == ToInt16(smp * 32767, SampleScale)

\* a sendAndClearBuffer that posts every chunk
EmitsAlways(cur) == TRUE

\* sendAndClearBuffer posts the chunk if (this.currentGain > 0.001)
Emits(cur) == cur > SilenceEpsilon

\* one iteration of the sample loop on a sample of value x, with
\* sendAndClearBuffer when the buffer is full
VadProcessSample(x, st) ==
    LET cur == VadSmooth(st.cur, st.tgt)
        buf == [st.buf EXCEPT ![st.idx + 1] = VadQuantize(VadSample(x, cur))]
        idx == st.idx + 1
        full == idx >= BUFFER_LENGTH
        hot == st.hot \/ cur > SilenceEpsilon
        post == full /\ Emits(cur)
    IN [cur |-> cur, tgt |-> st.tgt, buf |-> buf,
        idx |-> IF full THEN 0 ELSE idx,
        chunks |-> IF post THEN st.chunks + 1 ELSE st.chunks,
        last |-> IF post THEN SubSeq(buf, 1, idx) ELSE st.last,
        dropped |-> IF full /\ ~post THEN st.dropped + 1 ELSE st.dropped,
        hot |-> IF full THEN FALSE ELSE hot,
        dhot |-> st.dhot \/ (full /\ ~post /\ hot),
        egain |-> IF post THEN Min(st.egain, cur) ELSE st.egain,
        dgain |-> IF full /\ ~post THEN Max(st.dgain, cur) ELSE st.dgain,
        n |-> st.n + 1,
        full |-> IF full THEN st.full + 1 ELSE st.full,
        ok |-> st.ok /\ st.idx < BUFFER_LENGTH]

\* the sample loop over n samples of value x (the first half of the
\* samples, then the rest)
RECURSIVE VadLoop(_, _, _)
VadLoop(n, x, st) ==
    IF n = 0 THEN st
    ELSE IF n = 1 THEN VadProcessSample(x, st)
    ELSE LET half == VadLoop(n \div 2, x, st)
         IN IF half.idx >= 0 THEN VadLoop(n - n \div 2, x, half) ELSE half

\* the blocks of a run: noise at about 0.005 or speech at about 0.3, in
\* blocks of the render quantum or of 200 samples
GateSamples == {(5 * SampleScale) \div 1000, (3 * SampleScale) \div 10}
GateLengths == {128, 200}

\* a run is blocks of one length, with at most MaxGateChanges changes of
\* the input level, MaxGateBlocks blocks long
GateAllowed(n, x) ==
    /\ wBlocks < MaxGateBlocks
    /\ wBlocks = 0 \/ n = blockLen
    /\ wBlocks = 0 \/ x = gateLevel \/ gateChanges < MaxGateChanges

\* analyzeAndProcess(l) on a block of n samples of value x
analyzeAndProcess(n, x) ==
    /\ wRevision \in {"none", "vad"}
    /\ GateAllowed(n, x)
    /\ wRevision' = "vad"
    /\ wBlocks' = wBlocks + 1
    /\ blockLen' = n
    /\ gateLevel' = x
    /\ gateChanges' = IF wBlocks = 0 \/ x = gateLevel THEN gateChanges
                      ELSE gateChanges + 1
    /\ \E rms \in { Rms(x) } :
       \E nf \in { VadNoiseFloor(vNoiseFloor, rms) } :
       \E speech \in { VadSpeech(rms, nf, isSpeechDetected, hangoverFrames) } :
          /\ vNoiseFloor' = nf
          /\ isSpeechDetected' = speech
          /\ hangoverFrames' = VadHangover(rms, nf, hangoverFrames)
          /\ vTargetGain' = VadTargetGain(rms, speech)
          /\ \E r \in { VadLoop(n, x,
                         [cur |-> vCurrentGain,
                          tgt |-> VadTargetGain(rms, speech), buf |-> buffer,
                          idx |-> bufferWriteIndex, chunks |-> wChunks,
                          last |-> wLastChunk, dropped |-> wDropped,
                          hot |-> bufferHot, dhot |-> droppedHot,
                          egain |-> emitGain, dgain |-> dropGain,
                          n |-> wSamples, full |-> wFull,
                          ok |-> wInRange]) } :
                /\ vCurrentGain' = r.cur
                /\ buffer' = r.buf
                /\ bufferWriteIndex' = r.idx
                /\ wChunks' = r.chunks
                /\ wLastChunk' = r.last
                /\ wDropped' = r.dropped
                /\ bufferHot' = r.hot
                /\ droppedHot' = r.dhot
                /\ emitGain' = r.egain
                /\ dropGain' = r.dgain
                /\ wSamples' = r.n
                /\ wFull' = r.full
                /\ wInRange' = r.ok
    /\ LogRuns(n, x)
    /\ wLastOp' = "analyzeAndProcess"
    /\ UNCHANGED << recorderVars, wTargetGain, wCurrentGain, wMsgs, wWorstErr,
                    wSawOne, gainDelivered, auxVars >>


\* ======================================================================
\* State after construction (field initialisers, audio-recorder.ts 29-52
\* and 275-293)
\* ======================================================================
\* `source` is undefined
NoSource == << 0, 0 >>

\* the script of a run that opens at the level `level`
RunStart(level) ==
    /\ runLevel = level /\ levelChanges = 0 /\ freeSteps = 0
    /\ rmsWindow = << >>
    /\ aboveRun = 0 /\ belowRun = 0 /\ dropAfter = 0
    /\ prevGain = DefaultGain /\ prevMult = DefaultMultiplier
    /\ prevSpeaking = FALSE /\ prevHold = 0
    /\ trigFocus = FALSE /\ trigPlain = FALSE
    /\ duckSteps = 0 /\ scen = 0
    /\ rmsLog = << >>
    /\ trigTarget = 0

RunInit == RunStart(WarmLevel)

SensDefaults ==
    /\ currentGain = DefaultGain
    /\ targetGain = DefaultGain
    /\ noiseFloor = DefaultNoiseFloor(version)
    /\ lastVolume = 0
    /\ volumeHistory = << >>
    /\ volumeMultiplier = DefaultMultiplier
    /\ targetVolumeMultiplier = DefaultMultiplier
    /\ speechHoldCounter = 0
    /\ isSpeaking = FALSE
    /\ silenceFrames = 0

\* field initialisers of WebSocketService (websocket-service.ts 15-18)
WsInit ==
    /\ ws = 0 /\ wsStatus = "disconnected"
    /\ sockets = [i \in SocketIds |-> "unused"]
    /\ wsRevision = "none"
    /\ reconnectTimeout = 0
    /\ timers = [i \in SocketIds |-> "none"]
    /\ sendResult = "none"

\* field initialisers of GenAILiveClient (genai-live-client.ts 58-60)
LiveInit ==
    /\ liveStatus = "disconnected"
    /\ session = 0
    /\ sessions = [i \in SessionIds |-> "unused"]
    /\ connecting = [i \in SessionIds |-> "none"]
    /\ afterDisconnect = FALSE
    /\ liveSent = << "none", "none", "disconnected" >>

\* the objects as constructed, with the script of a run that opens at
\* the level `level`
Construct(level) ==
    /\ version \in Versions
    /\ SensDefaults
    /\ voiceFocus = FALSE
    /\ lastPosted = 0 /\ postCount = 0
    /\ gainPort = << >> /\ gainSent = << >>
    /\ stream = 0 /\ source = NoSource /\ recording = FALSE
    /\ recordingWorklet = 0 /\ vuWorklet = 0 /\ starting = 0
    /\ connections = {}
    /\ att = [i \in AttemptIds |-> "unused"]
    /\ ret = [i \in AttemptIds |-> "none"]
    /\ lastCall = 0
    /\ waiters = {} /\ acquired = {} /\ tracksStopped = {}
    /\ recNodes = {} /\ vuNodes = {}
    /\ WorkletInit
    /\ rmsCount = 0 /\ rmsInFlight = 0 /\ apiCount = 0
    /\ lastVol = 0 /\ quietBefore = FALSE /\ lastOp = "init" /\ stopRan = FALSE
    /\ RunStart(level)
    /\ WsInit
    /\ LiveInit

Init == Construct(WarmLevel)

\* ======================================================================
\* Control surface (audio-recorder.ts 61-67)
\* ======================================================================
\* a setVolumeMultiplier that also applies the multiplier at once
setVolumeMultiplierNow(multiplier) ==
    /\ apiCount < MaxApi
    /\ apiCount' = apiCount + 1
    /\ targetVolumeMultiplier' = multiplier
    /\ volumeMultiplier' = multiplier
    /\ lastOp' = "setVolumeMultiplier" /\ stopRan' = FALSE
    /\ UNCHANGED << version, workletVars, bufferVars, gateVars, auxVars, runVars,
                    currentGain, targetGain, noiseFloor, lastVolume,
                    volumeHistory, voiceFocus, speechHoldCounter, isSpeaking,
                    silenceFrames, portVars, lifeVars, attVars, rmsCount,
                    rmsInFlight, lastVol, quietBefore >>

setVolumeMultiplier(multiplier) ==
    /\ apiCount < MaxApi
    /\ apiCount' = apiCount + 1
    /\ targetVolumeMultiplier' = multiplier
    /\ lastOp' = "setVolumeMultiplier" /\ stopRan' = FALSE
    /\ UNCHANGED << version, workletVars, bufferVars, gateVars, auxVars, runVars, currentGain, targetGain, noiseFloor, lastVolume,
                    volumeHistory, volumeMultiplier, voiceFocus,
                    speechHoldCounter, isSpeaking, silenceFrames,
                    portVars, lifeVars, attVars, rmsCount, rmsInFlight,
                    lastVol, quietBefore >>

\* only the advanced revision has setVoiceFocus
setVoiceFocus(enabled) ==
    /\ version = ADVANCED
    /\ apiCount < MaxApi
    /\ apiCount' = apiCount + 1
    /\ voiceFocus' = enabled
    /\ lastOp' = "setVoiceFocus" /\ stopRan' = FALSE
    /\ UNCHANGED << version, workletVars, bufferVars, gateVars, auxVars, runVars, currentGain, targetGain, noiseFloor, lastVolume,
                    volumeHistory, volumeMultiplier, targetVolumeMultiplier,
                    speechHoldCounter, isSpeaking, silenceFrames,
                    portVars, lifeVars, attVars, rmsCount, rmsInFlight,
                    lastVol, quietBefore >>

\* ======================================================================
\* updateSensitivity, called by vuWorklet.port.onmessage (191-195)
\* ======================================================================
\* if (this.recordingWorklet) port.postMessage({ gain: finalGain })
PostGain(finalGain) ==
    IF recordingWorklet # 0
    THEN /\ lastPosted' = finalGain /\ postCount' = postCount + 1
         /\ gainPort' = Append(gainPort, finalGain)
         /\ gainSent' = Append(gainSent, finalGain)
    ELSE UNCHANGED portVars

\* a level meter that is wired to a source reports a block
VuReporting == \E c \in connections : c[2] = "vu"

\* the level meter posts the RMS of a block; the message is handled by
\* vuWorklet.port.onmessage later, in a task of the control context
vuPost ==
    /\ VuReporting
    /\ rmsInFlight < MaxInFlight
    /\ rmsCount + rmsInFlight < MaxRms
    /\ rmsInFlight' = rmsInFlight + 1
    /\ lastOp' = "vuPost" /\ stopRan' = FALSE
    /\ UNCHANGED << version, workletVars, bufferVars, gateVars, auxVars, runVars, sensVars, portVars, lifeVars,
                    attVars, rmsCount, apiCount, lastVol, quietBefore >>

\* an RMS message is waiting for the handler installed on the port
RmsArrived == rmsInFlight > 0

\* bookkeeping of one RMS step
Book(volume) ==
    /\ rmsCount' = rmsCount + 1
    /\ lastVol' = volume
    /\ quietBefore' = (rmsCount >= 1 /\ ~isSpeaking /\ speechHoldCounter = 0
                        /\ lastVol <= noiseFloor)
    /\ lastOp' = "updateSensitivity" /\ stopRan' = FALSE
    /\ UNCHANGED apiCount

\* the body of updateSensitivity, advanced revision (69-146)
SensitivityAdv(volume) ==
    /\ LET hist == PushHistory(volumeHistory, volume)
           nf == NoiseFloorAdv(noiseFloor, volume)
           volumeDelta == volume - lastVolume
           trig == TriggerAdv(volume, hist, nf, volumeDelta, voiceFocus)
           speaking == trig \/ speechHoldCounter > 0
           tgt == TargetGainAdv(speaking, hist, voiceFocus)
           cur == SmoothAdv(currentGain, tgt, voiceFocus)
           mult == DuckAdv(volumeMultiplier, targetVolumeMultiplier)
       IN /\ volumeHistory' = hist
          /\ noiseFloor' = nf
          /\ lastVolume' = volume
          /\ speechHoldCounter' =
                 IF trig THEN SPEECH_HOLD_FRAMES
                 ELSE IF speechHoldCounter > 0 THEN speechHoldCounter - 1
                 ELSE speechHoldCounter
          /\ isSpeaking' = speaking
          /\ targetGain' = tgt
          /\ currentGain' = cur
          /\ volumeMultiplier' = mult
          /\ PostGain(FinalGain(cur, mult))
    /\ UNCHANGED << version, workletVars, bufferVars, gateVars, auxVars,
                    targetVolumeMultiplier, voiceFocus, silenceFrames,
                    lifeVars, attVars >>

\* the handler of the level reporter's port takes a message (191-195)
updateSensitivityAdv(volume) ==
    /\ version = ADVANCED
    /\ RmsArrived
    /\ rmsInFlight' = rmsInFlight - 1
    /\ SensitivityAdv(volume)
    /\ Book(volume)
    /\ UNCHANGED runVars

\* the body of updateSensitivity, hysteresis revision (305-362)
SensitivityHys(volume) ==
    /\ LET nf == NoiseFloorHys(noiseFloor, volume, isSpeaking)
           speaking == SpeakingHys(isSpeaking, silenceFrames, volume, nf)
           tgt == TargetGainHys(speaking, volume)
           cur == SmoothHys(currentGain, tgt)
           mult == DuckHys(volumeMultiplier, targetVolumeMultiplier)
       IN /\ noiseFloor' = nf
          /\ isSpeaking' = speaking
          /\ silenceFrames' = FramesHys(isSpeaking, silenceFrames, volume, nf)
          /\ targetGain' = tgt
          /\ currentGain' = cur
          /\ volumeMultiplier' = mult
          /\ PostGain(FinalGain(cur, mult))
    /\ UNCHANGED << version, workletVars, bufferVars, gateVars, auxVars,
                    targetVolumeMultiplier, voiceFocus, lastVolume,
                    volumeHistory, speechHoldCounter, lifeVars, attVars >>

\* the handler of the level reporter's port takes a message (191-195)
updateSensitivityHys(volume) ==
    /\ version = HYSTERESIS
    /\ RmsArrived
    /\ rmsInFlight' = rmsInFlight - 1
    /\ SensitivityHys(volume)
    /\ Book(volume)
    /\ UNCHANGED runVars

\* ======================================================================
\* Scripted runs of RMS samples: the level reporter posts a block and the
\* handler takes it before the next one is posted
\* ======================================================================
\* entry threshold, times 10: dynamicThreshold (95) or START_THRESHOLD (314)
EntryX10(nf, vf) ==
    IF version = ADVANCED THEN DynamicThresholdX10(nf, vf)
    ELSE 30 * nf + (15 * VolScale) \div 100

\* exit threshold, times 10: the level under which the hold counter runs:
\* STOP_THRESHOLD (315); the advanced revision has the one dynamicThreshold
ExitX10(nf, vf) ==
    IF version = ADVANCED THEN DynamicThresholdX10(nf, vf)
    ELSE 15 * nf + (5 * VolScale) \div 100

\* !(volume > dynamicThreshold) (104), volume < STOP_THRESHOLD (323)
BelowExit(volume, nf, vf) ==
    IF version = ADVANCED THEN 10 * volume <= ExitX10(nf, vf)
    ELSE 10 * volume < ExitX10(nf, vf)

\* the hold counter of the revision: SPEECH_HOLD_FRAMES or the limit of
\* silenceFrames
HoldFrames == IF version = ADVANCED THEN SPEECH_HOLD_FRAMES ELSE SILENCE_FRAME_LIMIT

\* the VAD is in Speaking by its hold counter alone: the last sample met no
\* trigger condition (104) and ran the counter (107-109), or was below
\* STOP_THRESHOLD (323-324)
HoldOnly ==
    /\ isSpeaking
    /\ IF version = ADVANCED THEN speechHoldCounter < SPEECH_HOLD_FRAMES
       ELSE silenceFrames > 0

\* the scenario [0.01, 0.01, 0.5, 0.5, 0.5, 0.01, 0.01, ...]
ScenLevel(k) == IF k \in 3 .. 5 THEN VolScale \div 2 ELSE WarmLevel

\* the scenario may start: noise floor 0.01 (within 0.0005), voiceFocus
\* false, VAD in Silence
ScenStart ==
    /\ ~voiceFocus /\ ~isSpeaking /\ speechHoldCounter = 0
    /\ noiseFloor - WarmLevel <= VolScale \div 2000
    /\ WarmLevel - noiseFloor <= VolScale \div 2000

ScriptEvents == apiCount + levelChanges
EventAllowed ==
    /\ ScriptEvents < MaxEvents
    /\ ScriptEvents = 0 => rmsCount \in WarmLengths

StepAllowed(volume) ==
    /\ VuReporting /\ rmsInFlight = 0
    /\ volume # runLevel => EventAllowed
    /\ IF ScriptEvents = 0 /\ volume = runLevel THEN rmsCount < MaxWarm
       ELSE freeSteps < MaxRun

\* bookkeeping of one sample of a run; the sensitivity step has been taken
Track(volume) ==
    /\ runLevel' = volume
    /\ levelChanges' = IF volume = runLevel THEN levelChanges ELSE levelChanges + 1
    /\ freeSteps' = IF ScriptEvents = 0 /\ volume = runLevel THEN 0 ELSE freeSteps + 1
    /\ rmsWindow' = PushHistory(rmsWindow, volume)
    /\ aboveRun' = IF 10 * volume > EntryX10(noiseFloor', voiceFocus)
                   THEN aboveRun + 1 ELSE 0
    /\ belowRun' = IF BelowExit(volume, noiseFloor', voiceFocus)
                   THEN belowRun + 1 ELSE 0
    /\ dropAfter' = IF BelowExit(volume, noiseFloor', voiceFocus)
                    THEN (IF belowRun = 0 THEN aboveRun ELSE dropAfter)
                    ELSE 0
    /\ prevGain' = currentGain
    /\ prevMult' = volumeMultiplier
    /\ prevSpeaking' = isSpeaking
    /\ prevHold' = IF version = ADVANCED THEN speechHoldCounter ELSE silenceFrames
    /\ trigFocus' = (version = ADVANCED
                     /\ TriggerAdv(volume, PushHistory(volumeHistory, volume),
                                   NoiseFloorAdv(noiseFloor, volume),
                                   volume - lastVolume, TRUE))
    /\ trigPlain' = (version = ADVANCED
                     /\ TriggerAdv(volume, PushHistory(volumeHistory, volume),
                                   NoiseFloorAdv(noiseFloor, volume),
                                   volume - lastVolume, FALSE))
    /\ duckSteps' = IF targetVolumeMultiplier = 0 THEN duckSteps + 1 ELSE 0
    /\ rmsLog' = Append(rmsLog, volume)
    /\ trigTarget' = IF isSpeaking' /\ ~HoldOnly' THEN targetGain' ELSE trigTarget
    /\ scen' = IF voiceFocus THEN 0
               ELSE IF scen <= 2 /\ volume = WarmLevel /\ ScenStart
                    THEN Min(scen + 1, 2)
               ELSE IF scen >= 2 /\ volume = ScenLevel(scen + 1)
                       /\ (scen > 2 \/ volume # WarmLevel)
                    THEN scen + 1
               ELSE 0

rmsRunAdv(volume) ==
    /\ version = ADVANCED
    /\ StepAllowed(volume)
    /\ SensitivityAdv(volume)
    /\ Book(volume)
    /\ Track(volume)
    /\ UNCHANGED rmsInFlight

rmsRunHys(volume) ==
    /\ version = HYSTERESIS
    /\ StepAllowed(volume)
    /\ SensitivityHys(volume)
    /\ Book(volume)
    /\ Track(volume)
    /\ UNCHANGED rmsInFlight


\* ======================================================================
\* Capture lifecycle (audio-recorder.ts 148-228, the same in 364-443)
\* ======================================================================

\* handleStop (208-222 / 424-437): noiseFloor and voiceFocus are not assigned
handleStop ==
    /\ connections' = { c \in connections : c[1] # source }
    /\ tracksStopped' = IF stream # 0 THEN tracksStopped \cup {stream}
                        ELSE tracksStopped
    /\ stream' = 0
    /\ recordingWorklet' = 0
    /\ vuWorklet' = 0
    /\ recording' = FALSE
    /\ currentGain' = DefaultGain
    /\ targetGain' = DefaultGain
    /\ volumeMultiplier' = DefaultMultiplier
    /\ targetVolumeMultiplier' = DefaultMultiplier
    /\ IF version = ADVANCED
       THEN /\ speechHoldCounter' = 0
            /\ lastVolume' = 0
            /\ volumeHistory' = << >>
            /\ UNCHANGED << isSpeaking, silenceFrames >>
       ELSE /\ isSpeaking' = FALSE
            /\ silenceFrames' = 0
            /\ UNCHANGED << speechHoldCounter, lastVolume, volumeHistory >>
    /\ stopRan' = TRUE
    /\ UNCHANGED << noiseFloor, voiceFocus, source, portVars >>

\* what a step of the start() executor leaves alone
NoTeardown == stopRan' = FALSE /\ UNCHANGED << sensVars, portVars >>

\* start() when navigator.mediaDevices is missing: the async function throws
startNoMedia(i) ==
    /\ att[i] = "unused" /\ \A j \in AttemptIds : j < i => att[j] # "unused"
    /\ att' = [att EXCEPT ![i] = "nomedia"]
    /\ ret' = [ret EXCEPT ![i] = "rejected"]
    /\ lastCall' = i
    /\ lastOp' = "startNoMedia" /\ NoTeardown
    /\ UNCHANGED << version, workletVars, bufferVars, gateVars, auxVars, runVars, lifeVars, waiters, acquired, tracksStopped,
                    recNodes, vuNodes, rmsCount, rmsInFlight, apiCount,
                    lastVol, quietBefore >>

\* start(): this.starting = new Promise(executor); the executor runs up to
\* its first await; the async function returns without awaiting the promise
start(i) ==
    /\ att[i] = "unused" /\ \A j \in AttemptIds : j < i => att[j] # "unused"
    /\ att' = [att EXCEPT ![i] = "getUserMedia"]
    /\ starting' = i
    /\ ret' = [ret EXCEPT ![i] = "resolved"]
    /\ lastCall' = i
    /\ lastOp' = "start" /\ NoTeardown
    /\ UNCHANGED << version, workletVars, bufferVars, gateVars, auxVars, runVars, stream, source, recording, recordingWorklet,
                    vuWorklet, connections, waiters, acquired, tracksStopped,
                    recNodes, vuNodes, rmsCount, rmsInFlight, apiCount,
                    lastVol, quietBefore >>

\* catch (err) { reject(err) }: `starting` keeps the rejected promise; a
\* handleStop attached by stop() runs in the same microtask checkpoint
Reject(i) ==
    /\ att' = [att EXCEPT ![i] = "failed"]
    /\ waiters' = waiters \ {i}
    /\ IF i \in waiters
       THEN handleStop
       ELSE /\ NoTeardown
            /\ UNCHANGED << stream, source, recording, recordingWorklet,
                            vuWorklet, connections, tracksStopped >>
    /\ UNCHANGED << version, workletVars, bufferVars, gateVars, auxVars, runVars, starting, ret, lastCall, acquired, recNodes, vuNodes,
                    rmsCount, rmsInFlight, apiCount,
                    lastVol, quietBefore >>

\* this.stream = await getUserMedia(...)
getUserMediaOk(i) ==
    /\ att[i] = "getUserMedia"
    /\ att' = [att EXCEPT ![i] = "audioContext"]
    /\ stream' = i
    /\ acquired' = acquired \cup {i}
    /\ lastOp' = "getUserMediaOk" /\ NoTeardown
    /\ UNCHANGED << version, workletVars, bufferVars, gateVars, auxVars, runVars, source, recording, recordingWorklet, vuWorklet,
                    starting, connections, ret, lastCall, waiters, tracksStopped,
                    recNodes, vuNodes, rmsCount, rmsInFlight, apiCount,
                    lastVol, quietBefore >>

\* getUserMedia rejects (no device, permission denied)
getUserMediaFail(i) ==
    /\ att[i] = "getUserMedia"
    /\ lastOp' = "getUserMediaFail"
    /\ Reject(i)

\* this.audioContext = await audioContext(...);
\* this.source = createMediaStreamSource(this.stream), which throws when
\* this.stream is undefined
audioContextOk(i) ==
    /\ att[i] = "audioContext"
    /\ IF stream = 0
       THEN lastOp' = "graphSetupFail" /\ Reject(i)
       ELSE /\ att' = [att EXCEPT ![i] = "addModuleRec"]
            /\ source' = << i, stream >>
            /\ lastOp' = "audioContextOk" /\ NoTeardown
            /\ UNCHANGED << version, workletVars, bufferVars, gateVars, auxVars, runVars, stream, recording, recordingWorklet,
                            vuWorklet, starting, connections, ret, lastCall, waiters,
                            acquired, tracksStopped, recNodes, vuNodes,
                            rmsCount, rmsInFlight, apiCount,
                    lastVol, quietBefore >>

\* await addModule(src); recordingWorklet = new AudioWorkletNode;
\* source.connect(recordingWorklet)
addModuleRecOk(i) ==
    /\ att[i] = "addModuleRec"
    /\ att' = [att EXCEPT ![i] = "addModuleVu"]
    /\ recordingWorklet' = i
    /\ recNodes' = recNodes \cup {i}
    /\ connections' = connections \cup { << source, "rec", i >> }
    /\ lastOp' = "addModuleRecOk" /\ NoTeardown
    /\ UNCHANGED << version, workletVars, bufferVars, gateVars, auxVars, runVars, stream, source, recording, vuWorklet, starting,
                    ret, lastCall, waiters, acquired, tracksStopped, vuNodes,
                    rmsCount, rmsInFlight, apiCount,
                    lastVol, quietBefore >>

\* await addModule(vu); vuWorklet = new AudioWorkletNode; source.connect;
\* recording = true; resolve(); this.starting = null; then the handleStop
\* attached by stop(), if any
addModuleVuOk(i) ==
    /\ att[i] = "addModuleVu"
    /\ att' = [att EXCEPT ![i] = "done"]
    /\ vuNodes' = vuNodes \cup {i}
    /\ starting' = 0
    /\ waiters' = waiters \ {i}
    /\ lastOp' = "addModuleVuOk"
    /\ IF i \in waiters
       THEN handleStop
       ELSE /\ vuWorklet' = i
            /\ connections' = connections \cup { << source, "vu", i >> }
            /\ recording' = TRUE
            /\ NoTeardown
            /\ UNCHANGED << stream, source, recordingWorklet, tracksStopped >>
    /\ UNCHANGED << version, workletVars, bufferVars, gateVars, auxVars, runVars, ret, lastCall, acquired, recNodes, rmsCount, rmsInFlight, apiCount,
                    lastVol, quietBefore >>

\* the audio context, a worklet module or a node could not be constructed
graphSetupFail(i) ==
    /\ att[i] \in {"audioContext", "addModuleRec", "addModuleVu"}
    /\ lastOp' = "graphSetupFail"
    /\ Reject(i)

\* stop() while this.starting is a pending promise: handleStop is attached
stopDeferred ==
    /\ starting # 0 /\ att[starting] \in PendingPcs
    /\ waiters' = waiters \cup {starting}
    /\ lastCall' = StopCall
    /\ lastOp' = "stopDeferred" /\ NoTeardown
    /\ UNCHANGED << version, workletVars, bufferVars, gateVars, auxVars, runVars, lifeVars, att, ret, acquired, tracksStopped,
                    recNodes, vuNodes, rmsCount, rmsInFlight, apiCount,
                    lastVol, quietBefore >>

\* stop() otherwise: handleStop runs at once (this.starting is null), or in
\* the microtasks of the call (this.starting is a rejected promise)
stopNow ==
    /\ IF starting = 0 THEN TRUE ELSE att[starting] \notin PendingPcs
    /\ handleStop
    /\ lastCall' = StopCall
    /\ lastOp' = "stop"
    /\ UNCHANGED << version, workletVars, bufferVars, gateVars, auxVars, runVars, starting, att, ret, waiters, acquired, recNodes, vuNodes, rmsCount, rmsInFlight, apiCount,
                    lastVol, quietBefore >>


\* ======================================================================
\* Specification of the recorder
\* ======================================================================
\* the controller with one capture graph that starts without failures
Next ==
    \/ start(1)
    \/ getUserMediaOk(1)
    \/ audioContextOk(1)
    \/ addModuleRecOk(1)
    \/ addModuleVuOk(1)
    \/ stopDeferred
    \/ stopNow
    \/ \E m \in MultiplierInputs : setVolumeMultiplier(m)
    \/ \E b \in BOOLEAN : setVoiceFocus(b)
    \/ vuPost
    \/ \E v \in RmsInputs : updateSensitivityAdv(v)
    \/ \E v \in RmsInputs : updateSensitivityHys(v)

Spec == Init /\ [][Next]_vars

\* the controller on scripted runs of RMS samples, with control calls
\* between the runs
NextRun ==
    \/ start(1)
    \/ getUserMediaOk(1)
    \/ audioContextOk(1)
    \/ addModuleRecOk(1)
    \/ addModuleVuOk(1)
    \/ \E v \in RunLevels : rmsRunAdv(v)
    \/ \E v \in RunLevels : rmsRunHys(v)
    \/ \E m \in DuckTargets : VuReporting /\ EventAllowed /\ setVolumeMultiplier(m)
    \/ VuReporting /\ EventAllowed /\ setVoiceFocus(TRUE)

SpecRun == Init /\ [][NextRun]_vars

\* the lifecycle alone, with every failure of device and graph
NextLife ==
    \/ \E i \in AttemptIds : startNoMedia(i)
    \/ \E i \in AttemptIds : start(i)
    \/ \E i \in AttemptIds : getUserMediaOk(i)
    \/ \E i \in AttemptIds : getUserMediaFail(i)
    \/ \E i \in AttemptIds : audioContextOk(i)
    \/ \E i \in AttemptIds : addModuleRecOk(i)
    \/ \E i \in AttemptIds : addModuleVuOk(i)
    \/ \E i \in AttemptIds : graphSetupFail(i)
    \/ stopDeferred
    \/ stopNow

SpecLife == Init /\ [][NextLife]_vars

\* the sample processor alone: messages and blocks in any order
InitWorklet == Init /\ version = HYSTERESIS

NextWorklet ==
    \/ \E g \in GainMessages : onmessage(g)
    \/ \E n \in BlockLengths, x \in SampleInputs : process(n, x)
    \/ processEmpty

SpecWorklet == InitWorklet /\ [][NextWorklet]_vars

\* controller and sample processor joined by the port: RMS samples of
\* silence and speech, blocks of one render quantum
PipeRms == {0, VolScale \div 2}
RenderQuantum == 128
PipeSamples == {(3 * SampleScale) \div 10 + 1}

NextPipe ==
    \/ start(1)
    \/ getUserMediaOk(1)
    \/ audioContextOk(1)
    \/ addModuleRecOk(1)
    \/ addModuleVuOk(1)
    \/ vuPost
    \/ \E v \in PipeRms : updateSensitivityAdv(v)
    \/ \E v \in PipeRms : updateSensitivityHys(v)
    \/ portDeliver
    \/ \E x \in PipeSamples : process(RenderQuantum, x)

SpecPipe == Init /\ [][NextPipe]_vars

\* the sample processor alone, in both revisions: runs of blocks through
\* the own-VAD revision, and a few blocks of any length through the
\* gain-interpolating one
NextGate ==
    \/ \E n \in GateLengths, x \in GateSamples : analyzeAndProcess(n, x)
    \/ \E n \in BlockLengths \cup GateLengths, x \in GateSamples : process(n, x)

SpecGate == InitWorklet /\ [][NextGate]_vars

\* the noise floors on long runs of silence: a run of the controller that
\* opens with exact zeros, or a run of zero blocks through the own-VAD
\* worklet (a behaviour exercises one of the two; they share no state)
FloorLevels == {0, VolScale \div 2}
FloorSamples == {0, (3 * SampleScale) \div 10}

InitFloor == Construct(0)

NextFloor ==
    \/ wBlocks = 0 /\ start(1)
    \/ wBlocks = 0 /\ getUserMediaOk(1)
    \/ wBlocks = 0 /\ audioContextOk(1)
    \/ wBlocks = 0 /\ addModuleRecOk(1)
    \/ wBlocks = 0 /\ addModuleVuOk(1)
    \/ \E v \in FloorLevels : wBlocks = 0 /\ rmsRunAdv(v)
    \/ \E v \in FloorLevels : wBlocks = 0 /\ rmsRunHys(v)
    \/ \E x \in FloorSamples :
           /\ version = HYSTERESIS /\ att[1] = "unused"
           /\ analyzeAndProcess(RenderQuantum, x)

SpecFloor == InitFloor /\ [][NextFloor]_vars


\* ======================================================================
\* WebSocketService (websocket-service.ts 34-105, part_005 33-100)
\* ======================================================================
\* The page is served from localhost (otherwise connect() of the revision
\* of websocket-service.ts returns at once) and the URL is the valid
\* default, so `new WebSocket` does not throw.  A socket is "connecting",
\* "open", "closing" (close() called while open), "aborting" (close()
\* called while connecting) or "closed"; its open event is delivered only
\* while it is connecting, its close event once, when it becomes closed.
WsRevisions == {"plain", "reconnecting"}

LiveSockets == {i \in SocketIds : sockets[i] \in {"connecting", "open"}}

FreshSocket == CHOOSE i \in SocketIds :
    sockets[i] = "unused" /\ \A j \in SocketIds : sockets[j] = "unused" => i <= j

\* clearTimeout(t): a timer that has fired or was cleared stays as it is
ClearTimeout(tm, t) ==
    IF t # 0 /\ tm[t] = "pending" THEN [tm EXCEPT ![t] = "cleared"] ELSE tm

\* WebSocket.close()
CloseSocket(st) ==
    IF st = "connecting" THEN "aborting"
    ELSE IF st = "open" THEN "closing" ELSE st

\* connect(), past its early return
wsConnect(rev) ==
    /\ wsRevision \in {"none", rev}
    /\ ~(ws # 0 \/ wsStatus = "connecting")
    /\ \E i \in SocketIds : sockets[i] = "unused"
    /\ wsRevision' = rev
    /\ wsStatus' = "connecting"
    /\ ws' = FreshSocket
    /\ sockets' = [sockets EXCEPT ![FreshSocket] = "connecting"]
    /\ UNCHANGED << recorderVars, workletVars, bufferVars, gateVars, liveVars,
                    reconnectTimeout, timers, sendResult >>

\* the timer set by an unclean close fires and calls connect()
reconnectTimer(i) ==
    /\ timers[i] = "pending"
    /\ timers' = [timers EXCEPT ![i] = "fired"]
    /\ IF ws # 0 \/ wsStatus = "connecting"
       THEN UNCHANGED << ws, wsStatus, sockets >>
       ELSE /\ \E j \in SocketIds : sockets[j] = "unused"
            /\ wsStatus' = "connecting"
            /\ ws' = FreshSocket
            /\ sockets' = [sockets EXCEPT ![FreshSocket] = "connecting"]
    /\ UNCHANGED << recorderVars, workletVars, bufferVars, gateVars, liveVars,
                    wsRevision, reconnectTimeout, sendResult >>

\* the open event of socket i: its onopen handler
wsOnOpen(i) ==
    /\ sockets[i] = "connecting"
    /\ sockets' = [sockets EXCEPT ![i] = "open"]
    /\ wsStatus' = "connected"
    /\ timers' = ClearTimeout(timers, reconnectTimeout)
    /\ reconnectTimeout' = 0
    /\ UNCHANGED << recorderVars, workletVars, bufferVars, gateVars, liveVars,
                    ws, wsRevision, sendResult >>

\* the onclose handler of socket i
OnCloseHandler(i, wasClean) ==
    /\ ws' = 0
    /\ wsStatus' = "disconnected"
    /\ IF ~wasClean /\ wsRevision = "reconnecting"
       THEN /\ timers' = [timers EXCEPT ![i] = "pending"]
            /\ reconnectTimeout' = i
       ELSE UNCHANGED << timers, reconnectTimeout >>

\* the close event of socket i: the server closed an open socket, or a
\* socket closed by close() has finished closing
wsOnClose(i, wasClean) ==
    /\ sockets[i] \in {"open", "closing", "aborting"}
    /\ sockets[i] = "aborting" => ~wasClean
    /\ sockets' = [sockets EXCEPT ![i] = "closed"]
    /\ OnCloseHandler(i, wasClean)
    /\ UNCHANGED << recorderVars, workletVars, bufferVars, gateVars, liveVars,
                    wsRevision, sendResult >>

\* the connection of socket i fails: its error event (onerror changes no
\* field) and its unclean close event, delivered in one task
wsOnError(i) ==
    /\ sockets[i] = "connecting"
    /\ sockets' = [sockets EXCEPT ![i] = "closed"]
    /\ OnCloseHandler(i, FALSE)
    /\ UNCHANGED << recorderVars, workletVars, bufferVars, gateVars, liveVars,
                    wsRevision, sendResult >>

wsDisconnect ==
    /\ timers' = ClearTimeout(timers, reconnectTimeout)
    /\ reconnectTimeout' = 0
    /\ IF ws # 0
       THEN sockets' = [sockets EXCEPT ![ws] = CloseSocket(sockets[ws])]
       ELSE UNCHANGED sockets
    /\ ws' = 0
    /\ wsStatus' = "disconnected"
    /\ UNCHANGED << recorderVars, workletVars, bufferVars, gateVars, liveVars,
                    wsRevision, sendResult >>

\* sendPrompt(): "sent" when ws.send() ran on an open socket and true was
\* returned, "threw" when ws.send() ran on a socket still connecting (the
\* browser throws InvalidStateError), "lost" when it ran on a socket that
\* is closing or closed (the data is discarded, true is returned),
\* "refused" when false was returned
SendPromptResult ==
    IF ws # 0 /\ wsStatus = "connected"
    THEN IF sockets[ws] = "open" THEN "sent"
         ELSE IF sockets[ws] = "connecting" THEN "threw" ELSE "lost"
    ELSE "refused"

sendPrompt ==
    /\ wsRevision # "none"
    /\ sendResult' = SendPromptResult
    /\ UNCHANGED << recorderVars, workletVars, bufferVars, gateVars, liveVars,
                    ws, wsStatus, sockets, wsRevision, reconnectTimeout,
                    timers >>

NextWs ==
    \/ \E rev \in WsRevisions : wsConnect(rev)
    \/ wsDisconnect
    \/ \E i \in SocketIds : wsOnOpen(i)
    \/ \E i \in SocketIds, wasClean \in BOOLEAN : wsOnClose(i, wasClean)
    \/ \E i \in SocketIds : wsOnError(i)
    \/ \E i \in SocketIds : reconnectTimer(i)
    \/ sendPrompt

SpecWs == Init /\ [][NextWs]_vars


\* ======================================================================
\* GenAILiveClient (genai-live-client.ts 73-168, 231-244)
\* ======================================================================
\* client.live.connect() of the SDK opens a connection and hands the
\* callbacks to it; its promise resolves with the Session once the
\* connection is open, right after the onopen callback, or rejects.  The
\* connection of a session is "connecting", "open", "closing" (close()
\* called), or "closed".
SendMethods == {"send", "sendRealtimeInput", "sendToolResponse"}

FreshSession == CHOOSE i \in SessionIds :
    sessions[i] = "unused" /\ \A j \in SessionIds : sessions[j] = "unused" => i <= j

\* connect() up to its await; a call that finds the client connected or
\* connecting returns true at once
liveConnect ==
    /\ afterDisconnect' = FALSE
    /\ IF liveStatus \in {"connected", "connecting"}
       THEN /\ afterDisconnect
            /\ UNCHANGED << liveStatus, sessions, connecting >>
       ELSE /\ \E i \in SessionIds : sessions[i] = "unused"
            /\ liveStatus' = "connecting"
            /\ sessions' = [sessions EXCEPT ![FreshSession] = "connecting"]
            /\ connecting' = [connecting EXCEPT ![FreshSession] = "awaiting"]
    /\ UNCHANGED << recorderVars, workletVars, bufferVars, gateVars, wsVars,
                    session, liveSent >>

\* the connection of session i opens: onOpen(), then the await of the
\* connect() call resumes with the session
onOpen(i) ==
    /\ sessions[i] = "connecting"
    /\ sessions' = [sessions EXCEPT ![i] = "open"]
    /\ liveStatus' = "connected"
    /\ session' = i
    /\ connecting' = [connecting EXCEPT ![i] = "true"]
    /\ UNCHANGED << recorderVars, workletVars, bufferVars, gateVars, wsVars,
                    afterDisconnect, liveSent >>

\* client.live.connect() rejects: the catch block of connect()
connectRejected(i) ==
    /\ sessions[i] = "connecting" /\ connecting[i] = "awaiting"
    /\ sessions' = [sessions EXCEPT ![i] = "closed"]
    /\ liveStatus' = "disconnected"
    /\ session' = 0
    /\ connecting' = [connecting EXCEPT ![i] = "threw"]
    /\ UNCHANGED << recorderVars, workletVars, bufferVars, gateVars, wsVars,
                    afterDisconnect, liveSent >>

\* the connection of session i fails: onError(), then onClose()
onError(i) ==
    /\ sessions[i] \in {"connecting", "open"}
    /\ sessions' = [sessions EXCEPT ![i] = "closed"]
    /\ liveStatus' = "disconnected"
    /\ UNCHANGED << recorderVars, workletVars, bufferVars, gateVars, wsVars,
                    session, connecting, afterDisconnect, liveSent >>

\* the connection of session i has closed (by the server, or after
\* close()): onClose()
onClose(i) ==
    /\ sessions[i] \in {"open", "closing"}
    /\ sessions' = [sessions EXCEPT ![i] = "closed"]
    /\ liveStatus' = "disconnected"
    /\ UNCHANGED << recorderVars, workletVars, bufferVars, gateVars, wsVars,
                    session, connecting, afterDisconnect, liveSent >>

liveDisconnect ==
    /\ IF session # 0
       THEN sessions' = [sessions EXCEPT ![session] =
                            IF @ = "open" THEN "closing" ELSE @]
       ELSE UNCHANGED sessions
    /\ session' = 0
    /\ liveStatus' = "disconnected"
    /\ afterDisconnect' = TRUE
    /\ UNCHANGED << recorderVars, workletVars, bufferVars, gateVars, wsVars,
                    connecting, liveSent >>

\* send(), sendRealtimeInput() and sendToolResponse() share their guard
SendOutcome ==
    IF liveStatus # "connected" \/ session = 0 THEN "refused" ELSE "used"

send(method) ==
    /\ sessions[1] # "unused"
    /\ liveSent' = << method, SendOutcome, liveStatus >>
    /\ UNCHANGED << recorderVars, workletVars, bufferVars, gateVars, wsVars,
                    liveStatus, session, sessions, connecting,
                    afterDisconnect >>

NextLive ==
    \/ liveConnect
    \/ liveDisconnect
    \/ \E i \in SessionIds : onOpen(i)
    \/ \E i \in SessionIds : connectRejected(i)
    \/ \E i \in SessionIds : onError(i)
    \/ \E i \in SessionIds : onClose(i)
    \/ \E method \in SendMethods : send(method)

SpecLive == Init /\ [][NextLive]_vars

\* ======================================================================
\* Properties
\* ======================================================================

\* C1: after every step (RMS samples, setVolumeMultiplier and setVoiceFocus
\* in any order) 0 <= currentGain <= MAX_GAIN
C1_GainInRange == 0 <= currentGain /\ currentGain <= MAX_GAIN(version)

\* C1 witness: the gain has ramped up over several RMS samples with a
\* control call in between
C1_Witness ==
    /\ lastOp = "updateSensitivity" /\ rmsCount >= 3 /\ apiCount >= 1
    /\ currentGain > 3 * GainScale

\* C2 (as claimed): every GainCommand posted carries
\* clamp(currentGain * volumeMultiplier, 0, MAX_GAIN)
C2_FinalGainClamped ==
    (lastOp = "updateSensitivity" /\ recordingWorklet # 0) =>
        lastPosted = Max(0, Min(MAX_GAIN(version),
                                FinalGain(currentGain, volumeMultiplier)))

\* C3 (as claimed): once handleStop has run, every SensitivityState field
\* has its constructor default
C3_StopResetsAll ==
    stopRan =>
        /\ noiseFloor = DefaultNoiseFloor(version)
        /\ currentGain = DefaultGain
        /\ targetGain = DefaultGain
        /\ volumeMultiplier = DefaultMultiplier
        /\ targetVolumeMultiplier = DefaultMultiplier
        /\ version = ADVANCED =>
               speechHoldCounter = 0 /\ lastVolume = 0 /\ volumeHistory = << >>
        /\ version = HYSTERESIS => ~isSpeaking /\ silenceFrames = 0

\* the level of a speech block in the scenarios (0.5)
HighEnergy == VolScale \div 2

AboveEntry ==
    IF version = ADVANCED
    THEN 10 * lastVol > DynamicThresholdX10(noiseFloor, voiceFocus)
    ELSE AboveStart(lastVol, noiseFloor)

Pending == { i \in AttemptIds : att[i] \in PendingPcs }

\* C4 (as claimed): a start() made while an earlier one is in flight does
\* not launch a second attempt: at most one acquisition / graph
\* construction is in progress, and at most one stream is acquired and not
\* yet released
C4_SingleAttempt ==
    /\ Cardinality(Pending) <= 1
    /\ Cardinality(acquired \ tracksStopped) <= 1

\* C5 (as claimed): handleStop runs only when every in-flight start
\* attempt has settled
C5_TeardownAfterSettle == stopRan => Pending = {}

\* C6 (as claimed): the promise returned by start() resolves only once the
\* capture graph of its attempt is active, and rejects when the attempt fails
C6_StartPromise ==
    \A i \in AttemptIds :
        /\ ret[i] = "resolved" => att[i] = "done"
        /\ att[i] = "failed" => ret[i] = "rejected"

\* C7 (as claimed): a failed attempt leaves the recorder Idle: nothing the
\* attempt obtained is held, it is not marked in flight, recording is false
C7_FailureReturnsToIdle ==
    \A i \in AttemptIds :
        att[i] = "failed" =>
            /\ starting # i
            /\ stream # i
            /\ source[1] # i
            /\ recordingWorklet # i
            /\ (\A j \in AttemptIds : att[j] # "done") => ~recording

\* one quantization step (1/32768) in sample units
QuantStep == SampleScale \div PCM_SCALE

\* C8 (as claimed): every clipped sample s in [-1,1] that process() wrote
\* decodes (stored / 32768) to within one quantization step of s
C8_RoundTrip == wLastOp = "process" => wWorstErr <= QuantStep

\* C9 (as claimed): whatever gain a message carried, the target gain and
\* the applied gain of the worklet are finite and within [0, MAX_GAIN]
C9_GainClamped ==
    /\ wTargetGain.k = "fin" /\ wCurrentGain.k = "fin"
    /\ 0 <= wTargetGain.v /\ wTargetGain.v <= MAX_GAIN(ADVANCED)
    /\ 0 <= wCurrentGain.v /\ wCurrentGain.v <= MAX_GAIN(ADVANCED)

\* C12 (as claimed): every RMS sample the controller has handled produced
\* exactly one GainCommand: the number of commands posted equals the number
\* of samples handled
C12_OnePostPerSample == postCount = rmsCount

\* C11 (as claimed): a sample above the entry threshold finds the VAD
\* Speaking after it; when a run above the entry threshold is followed by
\* samples below the exit threshold, the VAD is Speaking after each of the
\* first HoldFrames of them and in Silence after the next one
C11_HoldExact ==
    lastOp = "updateSensitivity" =>
        /\ aboveRun >= 1 => isSpeaking
        /\ (dropAfter >= 1 /\ belowRun \in 1 .. HoldFrames) => isSpeaking
        /\ (dropAfter >= 1 /\ belowRun = HoldFrames + 1) => ~isSpeaking

\* C13: the target gain of the sample processor is the GainCommand delivered
\* last (1.0 before the first delivery), also right after a block was
\* processed; the commands still in flight are exactly those posted after
\* it, in posting order
C13_LatestWins ==
    /\ gainDelivered <= Len(gainSent)
    /\ gainPort = SubSeq(gainSent, gainDelivered + 1, Len(gainSent))
    /\ wTargetGain = IF gainDelivered = 0 THEN Fin(DefaultGain)
                     ELSE Fin(gainSent[gainDelivered])

\* C13 witness: a block was processed after two different commands had
\* been delivered and while a third was still in flight
C13_Witness ==
    /\ wLastOp = "process" /\ gainDelivered = 2 /\ gainPort # << >>
    /\ gainSent[1] # gainSent[2]
    /\ wTargetGain = Fin(gainSent[2])

\* duckingAlpha of the revision, in percent
DuckPct == IF version = ADVANCED THEN 20 ELSE 15

\* C14: while the ducking target is 0, every RMS sample takes
\* volumeMultiplier to (1 - duckingAlpha) of its value (to the nearest
\* unit): it never goes below 0, does not reach 0 in one step, decreases
\* as long as the fraction is at least half a unit, and DuckSettle samples
\* after the call the GainCommand carries at most 0.5% of MAX_GAIN
C14_DuckDecays ==
    (lastOp = "updateSensitivity" /\ duckSteps >= 1 /\ prevMult >= 0) =>
        /\ 100 * volumeMultiplier - (100 - DuckPct) * prevMult <= 50
        /\ (100 - DuckPct) * prevMult - 100 * volumeMultiplier <= 50
        /\ volumeMultiplier >= 0
        /\ prevMult > 0 => volumeMultiplier > 0
        /\ 2 * DuckPct * prevMult > 100 => volumeMultiplier < prevMult
        /\ duckSteps >= DuckSettle => 200 * lastPosted <= MAX_GAIN(version)

\* C14 witness: speech goes on (the controller's gain is well above 0)
\* and the ducked command has decayed
C14_Witness ==
    /\ lastOp = "updateSensitivity" /\ duckSteps >= DuckSettle
    /\ isSpeaking /\ currentGain > GainScale \div 2
    /\ volumeMultiplier < prevMult + 1 /\ 200 * lastPosted <= MAX_GAIN(version)

\* targetLevel / 0.5 of the revision with voiceFocus false, clamped
ScenTarget ==
    LET level == IF version = ADVANCED THEN TargetLevel(FALSE)
                 ELSE (45 * VolScale) \div 100
    IN Max(MIN_GAIN(version),
           Min(MAX_GAIN(version), RDiv(level * GainScale, VolScale \div 2)))

\* C15 (as claimed): in the scenario (noise floor 0.01, voiceFocus false,
\* samples 0.01, 0.01, 0.5, 0.5, 0.5, 0.01, ...; scen is the number of its
\* samples handled) the VAD is Speaking by the last 0.5 sample; on the 0.5
\* samples, once Speaking, currentGain does not move away from
\* targetLevel / 0.5; and from the sample after HoldFrames samples of 0.01
\* on the VAD is in Silence, targetGain is 0 and currentGain decreases
\* (until it is within 0.004 of 0)
C15_Scenario ==
    lastOp = "updateSensitivity" =>
        /\ scen = 5 => isSpeaking
        /\ (scen \in 3 .. 5 /\ isSpeaking) =>
               Abs(currentGain - ScenTarget) <= Abs(prevGain - ScenTarget)
        /\ scen >= 5 + HoldFrames + 1 =>
               /\ ~isSpeaking
               /\ targetGain = 0
               /\ currentGain < prevGain \/ prevGain <= 4

\* targetLevel / max(avgVolume, epsilon) clamped to [MIN_GAIN, MAX_GAIN],
\* avgVolume the mean of the rolling window of samples `window`; targetLevel
\* and epsilon are 0.5 or 0.75 and 0.0001 (advanced), 0.45 and 0.01
\* (hysteresis)
NormalizingGain(window) ==
    LET n == Len(window)
        level == IF version = ADVANCED THEN TargetLevel(voiceFocus)
                 ELSE (45 * VolScale) \div 100
        epsilon == IF version = ADVANCED THEN VolScale \div 10000
                   ELSE VolScale \div 100
    IN Max(MIN_GAIN(version),
           Min(MAX_GAIN(version),
               RDiv(level * n * GainScale, Max(SumSeq(window), n * epsilon))))

\* C16 (as claimed): after every RMS sample targetGain is the normalizing
\* gain of the mean of the rolling history if the VAD is Speaking, and 0 if
\* it is in Silence
C16_TargetGain ==
    lastOp = "updateSensitivity" =>
        targetGain = IF isSpeaking THEN NormalizingGain(rmsWindow) ELSE 0

\* C17 (as claimed): whenever the trigger condition of the advanced
\* revision holds for an RMS sample with voiceFocus enabled, it also holds
\* for the same sample from the same state with voiceFocus disabled
C17_FocusMoreSelective ==
    lastOp = "updateSensitivity" => (trigFocus => trigPlain)

\* C18 (as claimed): at the noise floor of every state (and at the floors
\* 0, 0.001, 0.01, 0.1 and 1.0) the exit threshold is strictly below the
\* entry threshold, and an RMS sample above the exit threshold that finds
\* the VAD Speaking leaves it Speaking with nothing of the hold counter
\* consumed
C18_Hysteresis ==
    lastOp = "updateSensitivity" =>
        /\ \A nf \in {noiseFloor, 0, VolScale \div 1000, VolScale \div 100,
                       VolScale \div 10, VolScale} :
               ExitX10(nf, voiceFocus) < EntryX10(nf, voiceFocus)
        /\ (prevSpeaking /\ 10 * lastVol > ExitX10(noiseFloor, voiceFocus)) =>
               /\ isSpeaking
               /\ IF version = ADVANCED THEN speechHoldCounter >= prevHold
                  ELSE silenceFrames = 0


\* the <<value, count>> runs of an input, sample by sample, as stored by
\* the gain-interpolating revision at unit gain
RECURSIVE Stored(_)
Stored(runs) ==
    IF runs = << >> THEN << >>
    ELSE [i \in 1 .. runs[1][2] |->
              Quantize(Clip(ApplyGain(runs[1][1], Fin(GainScale))))]
         \o Stored(Tail(runs))

\* C19 (as amended): the buffer is reset exactly when it becomes full, and
\* a sample is only ever written below index 512; every processed sample
\* is in exactly one position of one filling of the buffer, across blocks
\* of any length; a full buffer is posted as a chunk of 512 samples in
\* arrival order, except that the own-VAD revision drops it when its
\* currentGain is at or below 0.001 at that moment, and only then.
C19_Buffering ==
    /\ wInRange /\ bufferWriteIndex < BUFFER_LENGTH
    /\ wSamples = BUFFER_LENGTH * wFull + bufferWriteIndex
    /\ Held(wRuns) = bufferWriteIndex
    /\ wFull = wChunks + wDropped
    /\ wChunks > 0 => Len(wLastChunk) = BUFFER_LENGTH
    /\ wRevision = "gain" =>
           /\ wDropped = 0
           /\ wChunks > 0 => wLastChunk = Stored(wLastRuns)
    /\ wRevision = "vad" =>
           /\ dropGain <= SilenceEpsilon
           /\ emitGain > SilenceEpsilon

\* the own-VAD revision has dropped a buffer and posted a chunk, in blocks
\* that do not divide the buffer, and a block has ended inside the buffer
C19_Witness ==
    /\ wRevision = "vad" /\ blockLen = 200
    /\ wDropped > 0 /\ wChunks > 0 /\ bufferWriteIndex > 0

\* C19 (as claimed): a chunk is emitted exactly when the buffer becomes
\* full, so every processed sample is in exactly one chunk position.
C19_EveryFullBufferEmitted ==
    /\ wChunks = wFull
    /\ wSamples = BUFFER_LENGTH * wChunks + bufferWriteIndex

\* C20: the own-VAD revision drops a full buffer only if every sample of
\* it was written with a currentGain at or below 0.001.
C20_DropOnlySilent == wRevision = "vad" => ~droppedHot

\* C21: the noise floor of the controller (both revisions) and of the
\* own-VAD worklet is strictly above 0 after every RMS sample, whatever
\* non-negative samples arrive, a long run of exact zeros included.
C21_FloorPositive == noiseFloor > 0 /\ vNoiseFloor > 0

\* the advanced revision has taken MaxWarm samples of exact zero and its
\* floor has decayed below the initial one
C21_Witness ==
    /\ version = ADVANCED /\ lastOp = "updateSensitivity"
    /\ runLevel = 0 /\ levelChanges = 0 /\ rmsCount = MaxWarm
    /\ noiseFloor < DefaultNoiseFloor(ADVANCED)

\* attackAlpha = 0.5 (130); gainAlpha 0.25 when rising (351); in hundredths
AttackAlpha(v, vf) == IF v = ADVANCED THEN 50 ELSE 25
\* releaseAlpha = voiceFocus ? 0.1 : 0.2 (131); gainAlpha 0.12 when not
\* rising (351); in hundredths
ReleaseAlpha(v, vf) == IF v = ADVANCED THEN (IF vf THEN 10 ELSE 20) ELSE 12

\* C22: an RMS sample moves currentGain toward targetGain without
\* overshoot: the new currentGain lies between the old one and targetGain,
\* the step is the blend factor times the distance (to the rounding of one
\* gain unit), and the factor used when targetGain is above currentGain is
\* strictly larger than the one used otherwise, with voice focus on or off.
C22_SmoothNoOvershoot ==
    /\ \A v \in Versions, vf \in BOOLEAN : AttackAlpha(v, vf) > ReleaseAlpha(v, vf)
    /\ lastOp = "updateSensitivity" =>
           /\ Min(prevGain, targetGain) <= currentGain
           /\ currentGain <= Max(prevGain, targetGain)
           /\ LET alpha == IF targetGain > prevGain
                           THEN AttackAlpha(version, voiceFocus)
                           ELSE ReleaseAlpha(version, voiceFocus)
              IN Abs(100 * (currentGain - prevGain)
                     - alpha * (targetGain - prevGain)) <= 100

\* with voice focus on, a sample has released the gain part of the way
\* down to a lower target
C22_Witness ==
    /\ lastOp = "updateSensitivity" /\ voiceFocus
    /\ targetGain < currentGain /\ currentGain < prevGain

\* C23: setVolumeMultiplier changes only targetVolumeMultiplier and
\* setVoiceFocus only voiceFocus: a control call leaves currentGain,
\* targetGain, volumeMultiplier, noiseFloor, the hold counters and the RMS
\* history as they are and posts no GainCommand; the GainCommand of an RMS
\* sample carries the multiplier as that sample has blended it toward the
\* target.
C23_ControlFrame ==
    [][ /\ apiCount' # apiCount =>
            /\ UNCHANGED << currentGain, targetGain, volumeMultiplier,
                            noiseFloor, lastVolume, volumeHistory,
                            speechHoldCounter, silenceFrames, isSpeaking,
                            portVars >>
            /\ lastOp' = "setVolumeMultiplier" => UNCHANGED voiceFocus
            /\ lastOp' = "setVoiceFocus" => UNCHANGED targetVolumeMultiplier
        /\ postCount' # postCount =>
            /\ rmsCount' = rmsCount + 1
            /\ volumeMultiplier' =
                   IF version = ADVANCED
                   THEN DuckAdv(volumeMultiplier, targetVolumeMultiplier)
                   ELSE DuckHys(volumeMultiplier, targetVolumeMultiplier)
            /\ lastPosted' = FinalGain(currentGain', volumeMultiplier')
      ]_vars

\* the multiplier has been set to 0.15 while the graph is active, after a
\* GainCommand, and the applied multiplier is still 1.0
C23_Witness ==
    /\ lastOp = "setVolumeMultiplier" /\ recordingWorklet # 0 /\ postCount > 0
    /\ targetVolumeMultiplier = (15 * MultScale) \div 100
    /\ volumeMultiplier = DefaultMultiplier

\* the last min(Len(log), HISTORY_SIZE) samples of a log
Recent(log) == SubSeq(log, Max(1, Len(log) - HISTORY_SIZE + 1), Len(log))

\* C24: volumeHistory never holds more than HISTORY_SIZE entries and is
\* not empty once a sample has been taken: after the n-th RMS sample it is
\* the last min(n, 8) samples in arrival order, and the gain that
\* normalises by avgVolume is the one of their arithmetic mean.
C24_History ==
    version = ADVANCED =>
        /\ Len(volumeHistory) <= HISTORY_SIZE
        /\ Len(rmsLog) > 0 => Len(volumeHistory) > 0
        /\ Len(volumeHistory) = Min(Len(rmsLog), HISTORY_SIZE)
        /\ volumeHistory = Recent(rmsLog)
        /\ (lastOp = "updateSensitivity" /\ isSpeaking) =>
               targetGain = NormalizingGain(Recent(rmsLog))

\* more than HISTORY_SIZE samples have arrived, the level has changed
\* within the last eight, and the VAD is in Speaking
C24_Witness ==
    /\ version = ADVANCED /\ lastOp = "updateSensitivity" /\ isSpeaking
    /\ Len(rmsLog) > HISTORY_SIZE
    /\ volumeHistory[1] # volumeHistory[Len(volumeHistory)]

\* C25 (as claimed): an RMS message that is handled after the teardown of
\* stop() has run (no level reporter is held any more) changes no
\* SensitivityState field.
C25_LateRmsIgnored ==
    [][ (vuWorklet = 0 /\ rmsCount' = rmsCount + 1) => UNCHANGED sensVars ]_vars

\* every promise of a start() attempt has settled and every handleStop
\* attached to one has run
Settled == Pending = {} /\ waiters = {}

\* C26 (as claimed): once every pending promise has settled, the recorder
\* is recording if and only if the last call was a start() whose attempt
\* succeeded; after a last call of stop() recording is false.
C26_LastCallWins ==
    Settled =>
        (recording <=> (lastCall \in AttemptIds /\ att[lastCall] = "done"))

\* C27 (as claimed): once a stop() that followed every start() has taken
\* effect and every attempt has settled, the tracks of every stream that
\* getUserMedia returned have been stopped.
C27_NoStreamLeak ==
    (lastCall = StopCall /\ Settled) => acquired \subseteq tracksStopped

\* C28 (as claimed): after a sample that leaves the VAD in Speaking by the
\* hold counter alone, targetGain is not above the targetGain of the last
\* sample that triggered or sustained speech.
C28_HoldKeepsTarget ==
    (lastOp = "updateSensitivity" /\ HoldOnly) => targetGain <= trigTarget

\* C29 (as claimed): in WebSocketService, under any interleaving of
\* connect(), disconnect() and the sockets' open, close and error events,
\* status 'connected' implies that `ws` holds the open socket, at most one
\* socket is open or connecting, and a socket that is open or connecting
\* is the one the service holds (a late close event of a socket dropped by
\* disconnect() does not discard the socket of a later connect())
C29_WsConsistent ==
    /\ wsStatus = "connected" => (ws # 0 /\ sockets[ws] = "open")
    /\ Cardinality(LiveSockets) <= 1
    /\ \A i \in LiveSockets : ws = i

\* C30 (as claimed): in GenAILiveClient, after disconnect() has returned
\* and until the next connect() call, status is 'disconnected', no session
\* is held and no session is open, also when disconnect() was called while
\* a connect() was awaiting its session; and a send method uses a session
\* only while status is 'connected'
C30_DisconnectedStays ==
    /\ afterDisconnect =>
           /\ liveStatus = "disconnected"
           /\ session = 0
           /\ \A i \in SessionIds : sessions[i] # "open"
    /\ liveSent[2] = "used" => liveSent[3] = "connected"

====
